---- MODULE Spec2Model ----
(***************************************************************************)
(* A model of azmagic/magic.py: the `%az` line magic AzMagic.az.  One call *)
(* of az is a short sequential program: tokenize the line (shlex.split),   *)
(* build the CLI object and open the null sink, dispatch the tokens to the *)
(* CLI (az_cli.invoke), then either inspect the exit status and the        *)
(* payload (the try body) or classify a SystemExit (the except clause).    *)
(* The wrapped CLI is the environment: what invoke returns or raises, and  *)
(* what it records in az_cli.result, are chosen nondeterministically.      *)
(***************************************************************************)
EXTENDS Integers, Sequences, FiniteSets

(***************************************************************************)
(* Bounds of the model.                                                    *)
(***************************************************************************)
\* Longest command line, in characters.
MaxLen == 3
\* Longest list payload, in elements.
MaxRows == 2
\* Largest exit status / termination code the CLI produces.
MaxCode == 2

(***************************************************************************)
(* shlex.split(line): POSIX mode, whitespace_split = True, no commenters.  *)
(* A line is a sequence of one-character strings; a token likewise.        *)
(***************************************************************************)
\* shlex.whitespace: blank, tab, carriage return, line feed.
Whitespace == {" ", "\t", "\r", "\n"}
\* shlex.wordchars (its ASCII part; POSIX mode adds the Latin-1 letters, which
\* under whitespace_split are treated like every other ordinary character).
Wordchars ==
    { "a", "b", "c", "d", "e", "f", "g", "h", "i", "j", "k", "l", "m",
      "n", "o", "p", "q", "r", "s", "t", "u", "v", "w", "x", "y", "z",
      "A", "B", "C", "D", "E", "F", "G", "H", "I", "J", "K", "L", "M",
      "N", "O", "P", "Q", "R", "S", "T", "U", "V", "W", "X", "Y", "Z",
      "0", "1", "2", "3", "4", "5", "6", "7", "8", "9", "_" }
Quotes == {"'", "\""}
Escape == {"\\"}
EscapedQuotes == {"\""}
\* The characters command lines are drawn from: a word character, a blank
\* and a tab, both quotes, the backslash, and "-" (neither a word character
\* nor punctuation: it joins a token only because of whitespace_split).
Alphabet == {"a", " ", "\t", "'", "\"", "\\", "-"}

RECURSIVE SeqsUpTo(_, _)
SeqsUpTo(S, n) ==
    IF n = 0 THEN {<<>>}
    ELSE LET shorter == SeqsUpTo(S, n - 1)
         IN  shorter \cup {Append(s, c) : s \in shorter, c \in S}

Lines == SeqsUpTo(Alphabet, MaxLen)

ShlexOk(tokens) == [ok |-> TRUE, err |-> "", tokens |-> tokens]
ShlexError(msg) == [ok |-> FALSE, err |-> msg, tokens |-> <<>>]

\* shlex.read_token, run over the whole line: st is self.state (" " between
\* tokens, "a" inside a word, a quote character inside quotes, the backslash
\* after an escape), esc is escapedstate, tok is self.token, quoted is the
\* flag of the token being read, out collects the tokens returned so far.
RECURSIVE ShlexRun(_, _, _, _, _, _, _)
ShlexRun(s, i, st, esc, tok, quoted, out) ==
    IF i > Len(s)
    THEN \* read(1) returns "": end of input
         IF st \in Quotes THEN ShlexError("No closing quotation")
         ELSE IF st \in Escape THEN ShlexError("No escaped character")
         ELSE ShlexOk(IF tok # <<>> \/ quoted THEN Append(out, tok) ELSE out)
    ELSE LET c == s[i] IN
         CASE st = " " ->
                IF c \in Whitespace
                THEN IF tok # <<>> \/ quoted
                     THEN ShlexRun(s, i + 1, " ", esc, <<>>, FALSE, Append(out, tok))
                     ELSE ShlexRun(s, i + 1, " ", esc, tok, quoted, out)
                ELSE IF c \in Escape
                THEN ShlexRun(s, i + 1, c, "a", tok, quoted, out)
                ELSE IF c \in Wordchars
                THEN ShlexRun(s, i + 1, "a", esc, <<c>>, quoted, out)
                ELSE IF c \in Quotes
                THEN ShlexRun(s, i + 1, c, esc, tok, quoted, out)
                ELSE ShlexRun(s, i + 1, "a", esc, <<c>>, quoted, out)
           [] st \in Quotes ->
                IF c = st
                THEN ShlexRun(s, i + 1, "a", esc, tok, TRUE, out)
                ELSE IF c \in Escape /\ st \in EscapedQuotes
                THEN ShlexRun(s, i + 1, c, st, tok, TRUE, out)
                ELSE ShlexRun(s, i + 1, st, esc, Append(tok, c), TRUE, out)
           [] st \in Escape ->
                IF esc \in Quotes /\ c # st /\ c # esc
                THEN ShlexRun(s, i + 1, esc, esc, Append(Append(tok, st), c), quoted, out)
                ELSE ShlexRun(s, i + 1, esc, esc, Append(tok, c), quoted, out)
           [] OTHER ->
                IF c \in Whitespace
                THEN IF tok # <<>> \/ quoted
                     THEN ShlexRun(s, i + 1, " ", esc, <<>>, FALSE, Append(out, tok))
                     ELSE ShlexRun(s, i + 1, " ", esc, tok, quoted, out)
                ELSE IF c \in Quotes
                THEN ShlexRun(s, i + 1, c, esc, tok, quoted, out)
                ELSE IF c \in Escape
                THEN ShlexRun(s, i + 1, c, "a", tok, quoted, out)
                ELSE ShlexRun(s, i + 1, "a", esc, Append(tok, c), quoted, out)

shlex_split(line) == ShlexRun(line, 1, " ", " ", <<>>, FALSE, <<>>)

(***************************************************************************)
(* Python values.  Every value is a record [t, v]: t is the type tag       *)
(* isinstance tests, v the content.  A dict is the sequence of its         *)
(* <<key, value>> items in insertion order (keys distinct); a DataFrame    *)
(* is its column labels and its rows, one cell per column.                 *)
(***************************************************************************)
NoneV == [t |-> "none", v |-> 0]
IntV(n) == [t |-> "int", v |-> n]
StrV(s) == [t |-> "str", v |-> s]
ListV(items) == [t |-> "list", v |-> items]
DictV(items) == [t |-> "dict", v |-> items]
NaN == [t |-> "nan", v |-> 0]
DataFrame(columns, rows) == [t |-> "DataFrame", v |-> [columns |-> columns, rows |-> rows]]

IsList(x) == x.t = "list"
IsDict(x) == x.t = "dict"

\* key in d
HasKey(d, key) == \E i \in 1..Len(d.v) : d.v[i][1] = key
\* d[key]
GetItem(d, key) == d.v[CHOOSE i \in 1..Len(d.v) : d.v[i][1] = key][2]

(***************************************************************************)
(* Exceptions and the way a call ends.                                     *)
(***************************************************************************)
Exc(type, code, msg) == [type |-> type, code |-> code, msg |-> msg]
NoExc == Exc("", 0, "")
Return(val) == [kind |-> "return", val |-> val, exc |-> NoExc]
Raise(exc) == [kind |-> "raise", val |-> NoneV, exc |-> exc]

(***************************************************************************)
(* pd.json_normalize(data): the tabular conversion.  pandas is an external *)
(* library (setup.py admits every pandas >= 1.1.5), so the conversion is   *)
(* modelled from its contract: each mapping becomes one row, nested        *)
(* mappings are flattened to dotted column names, the columns are the      *)
(* keys of all rows in order of first appearance, and a row without a      *)
(* column holds NaN there.  Two kinds of build differ on input that is not *)
(* a list of mappings: "legacy" (before the _simple_json_normalize fast    *)
(* path) fails on it, "simple" turns a non-mapping element into an empty   *)
(* row and rejects a non-iterable with NotImplementedError.                *)
(***************************************************************************)
PandasBuilds == {"legacy", "simple"}

\* new_key = f"{key_string}{separator}{key}", the leading separator removed
DottedKey(prefix, key) == IF prefix = "" THEN key ELSE prefix \o "." \o key

\* _normalise_json: the items of a mapping, nested mappings replaced in place
\* by their own flattened items.  (Flattened keys are assumed distinct: no key
\* of the payloads below contains a dot.)
RECURSIVE NormaliseJson(_, _)
NormaliseJson(items, prefix) ==
    IF items = <<>> THEN <<>>
    ELSE LET key == DottedKey(prefix, Head(items)[1])
             val == Head(items)[2]
         IN  (IF IsDict(val) THEN NormaliseJson(val.v, key) ELSE << <<key, val>> >>)
                 \o NormaliseJson(Tail(items), prefix)

IsFlatItem(item) == ~IsDict(item[2])
IsNestedItem(item) == IsDict(item[2])

\* _normalise_json_ordered (and nested_to_record, which pops each nested
\* mapping and appends its flattened items): the top-level scalars first,
\* then the flattened nested mappings.
FlattenRecord(d) ==
    SelectSeq(d.v, IsFlatItem) \o NormaliseJson(SelectSeq(d.v, IsNestedItem), "")

\* The row of one element of the data: a mapping flattened, anything else {}.
RowItems(elem) == IF IsDict(elem) THEN FlattenRecord(elem) ELSE <<>>

\* acc followed by the keys of items that acc lacks, in order.
RECURSIVE AppendNewKeys(_, _)
AppendNewKeys(acc, items) ==
    IF items = <<>> THEN acc
    ELSE LET key == Head(items)[1]
         IN  AppendNewKeys(IF \E i \in 1..Len(acc) : acc[i] = key THEN acc
                           ELSE Append(acc, key),
                           Tail(items))

\* The column labels of DataFrame(rows): the union of the rows' keys in order
\* of first appearance.
RECURSIVE ColumnsOf(_, _)
ColumnsOf(rows, acc) ==
    IF rows = <<>> THEN acc
    ELSE ColumnsOf(Tail(rows), AppendNewKeys(acc, Head(rows)))

\* The cell of a row under a column: the row's value, NaN when it has none.
CellOf(items, column) ==
    IF \E i \in 1..Len(items) : items[i][1] = column
    THEN items[CHOOSE i \in 1..Len(items) : items[i][1] = column][2]
    ELSE NaN

\* DataFrame(list of flattened rows)
FrameOf(rows) ==
    LET columns == ColumnsOf(rows, <<>>)
    IN  DataFrame(columns,
                  [r \in 1..Len(rows) |->
                     [c \in 1..Len(columns) |-> CellOf(rows[r], columns[c])]])

json_normalize(data, build) ==
    IF IsList(data) /\ data.v = <<>> THEN Return(DataFrame(<<>>, <<>>))
    ELSE IF ~IsList(data) /\ ~IsDict(data)
    THEN Raise(Exc(IF build = "simple" THEN "NotImplementedError"
                   ELSE IF data.t = "str" THEN "AttributeError"
                   ELSE "TypeError", 0, ""))
    ELSE LET elems == IF IsDict(data) THEN <<data>> ELSE data.v
         IN  IF build = "legacy" /\ \E i \in 1..Len(elems) : ~IsDict(elems[i])
             THEN Raise(Exc("AttributeError", 0, ""))
             ELSE Return(FrameOf([i \in 1..Len(elems) |-> RowItems(elems[i])]))

(***************************************************************************)
(* The payloads the wrapped CLI may leave in az_cli.result.result.         *)
(***************************************************************************)
\* One record of a "list of records" payload, with a nested mapping.
Record(i) == DictV(<< <<"p", DictV(<< <<"q", IntV(i)>> >>)>>, <<"id", IntV(i)>> >>)
\* A record that itself carries the key, and the value, of the envelope's
\* context entry.
TaggedRecord == DictV(<< <<"@odata.context", StrV("ctx")>> >>)
\* What a list payload may hold: records, and a scalar (az ... --query "[].x").
Records == {Record(1), Record(2), TaggedRecord}
Elements == Records \cup {IntV(7)}
ListPayloads == {ListV(items) : items \in SeqsUpTo(Elements, MaxRows)}
\* An OData response: the envelope key and the value entry, which is a list
\* of records, a single record, a primitive or null.
Envelope(value) == DictV(<< <<"@odata.context", StrV("ctx")>>, <<"value", value>> >>)
EnvelopePayloads ==
    {Envelope(value) : value \in {ListV(items) : items \in SeqsUpTo(Records, MaxRows)}
                                     \cup {NoneV, IntV(5), Record(1)}}
\* Mappings without the envelope key, without the value key, or without both.
PlainMappings ==
    { DictV(<<>>),
      Record(1),
      DictV(<< <<"@odata.context", StrV("ctx")>> >>),
      DictV(<< <<"value", ListV(<<Record(1)>>)>> >>) }
\* Anything that is neither a list nor a mapping; None is the absent payload.
OpaquePayloads == {NoneV, IntV(5), StrV("text")}
Payloads == ListPayloads \cup EnvelopePayloads \cup PlainMappings \cup OpaquePayloads
\* What is left in result.result when invoke returns a non-zero status.
FailedPayloads == {NoneV, ListV(<<Record(1)>>), Record(2)}

Codes == 0..MaxCode
\* What invoke may raise besides SystemExit.
OtherExceptions == {"KeyboardInterrupt", "RuntimeError"}
\* What get_default_cli() may raise; it stands before the try, so even a
\* SystemExit of it is out of reach of the except clause.
CliExceptions == {Exc("RuntimeError", 0, ""), Exc("SystemExit", 0, "")}
\* What open(os.devnull, "w") may raise: no file descriptor left (EMFILE).
OpenExceptions == {Exc("OSError", 24, "Too many open files")}

(***************************************************************************)
(* The branches of az.  Each gives the sequence of ways the call ends by   *)
(* that branch: a return statement, the implicit return None at the end of *)
(* the function, or a raise.                                               *)
(***************************************************************************)
\* Mutant of catches: a bare `except:` in place of `except SystemExit`.
catches_all(exc) == TRUE

\* except SystemExit as exc: does the clause catch exc?
catches(exc) == exc.type = "SystemExit"

\* Mutant of try_body: the envelope test looks for the value key only.
try_body_value_key_only(exit_code, result, build) ==
    IF exit_code = 0
    THEN IF IsList(result)
         THEN <<json_normalize(result, build)>>
         ELSE IF IsDict(result)
         THEN IF HasKey(result, "value")
              THEN <<json_normalize(GetItem(result, "value"), build)>>
              ELSE <<Return(result)>>
         ELSE <<Return(result)>>
    ELSE <<Return(NoneV)>>

\* Mutant of try_body: the list branch is missing, a list is returned as is.
try_body_no_list_branch(exit_code, result, build) ==
    IF exit_code = 0
    THEN IF IsDict(result)
         THEN IF HasKey(result, "@odata.context") /\ HasKey(result, "value")
              THEN <<json_normalize(GetItem(result, "value"), build)>>
              ELSE <<Return(result)>>
         ELSE <<Return(result)>>
    ELSE <<Return(NoneV)>>

\* Mutant of try_body: the first test is `not isinstance(result, dict)`, so
\* every payload that is not a mapping is converted.
try_body_converts_opaque(exit_code, result, build) ==
    IF exit_code = 0
    THEN IF ~IsDict(result)
         THEN <<json_normalize(result, build)>>
         ELSE IF HasKey(result, "@odata.context") /\ HasKey(result, "value")
              THEN <<json_normalize(GetItem(result, "value"), build)>>
              ELSE <<Return(result)>>
    ELSE <<Return(NoneV)>>

\* Mutant of try_body: the exit status is not tested.
try_body_ignores_status(exit_code, result, build) ==
    IF IsList(result)
    THEN <<json_normalize(result, build)>>
    ELSE IF IsDict(result)
    THEN IF HasKey(result, "@odata.context") /\ HasKey(result, "value")
         THEN <<json_normalize(GetItem(result, "value"), build)>>
         ELSE <<Return(result)>>
    ELSE <<Return(result)>>

\* The try body after invoke has returned exit_code; result is
\* az_cli.result.result, read only when exit_code == 0.
try_body(exit_code, result, build) ==
    IF exit_code = 0
    THEN IF IsList(result)
         THEN <<json_normalize(result, build)>>
         ELSE IF IsDict(result)
         THEN IF HasKey(result, "@odata.context") /\ HasKey(result, "value")
              THEN <<json_normalize(GetItem(result, "value"), build)>>
              ELSE <<Return(result)>>
         ELSE <<Return(result)>>
    ELSE <<Return(NoneV)>>

\* Mutant of except_clause: every SystemExit is swallowed.
except_clause_swallows(exc, error_code) == <<Return(NoneV)>>

\* Mutant of except_clause: every SystemExit is raised again.
except_clause_reraises(exc, error_code) == <<Raise(exc)>>

\* The except clause; error_code is az_cli.result.error.code.
except_clause(exc, error_code) ==
    IF error_code = 0 THEN <<Return(NoneV)>> ELSE <<Raise(exc)>>

(***************************************************************************)
(* The state of one call of az.                                            *)
(***************************************************************************)
VARIABLES
    pc,           \* the statement az is at
    line,         \* the argument of az
    args,         \* shlex.split(line), <<>> before it ran
    setup,        \* how far az_cli and out_file have been set up
    sinks,        \* how many null sinks az has opened
    invocations,  \* how many times az has called az_cli.invoke
    dispatch,     \* how invoke ended: its exit code or the exception it raised
    cli,          \* az_cli.result: the payload and the recorded error code
    outcomes,     \* the ways the call has ended (returns and raises), in order
    steps,        \* history: the statements executed, in order
    payload_read, \* history: az_cli.result.result has been read
    classified    \* history: az_cli.result.error.code has been compared with 0

vars == <<pc, line, args, setup, sinks, invocations, dispatch, cli, outcomes, steps,
          payload_read, classified>>

NoDispatch == [kind |-> "pending", exit_code |-> 0, exc |-> NoExc]
NoResult == [result |-> NoneV, error_code |-> 0]

Init ==
    /\ pc = "tokenize"
    /\ line \in Lines
    /\ args = <<>>
    /\ setup = "pending"
    /\ sinks = 0
    /\ invocations = 0
    /\ dispatch = NoDispatch
    /\ cli = NoResult
    /\ outcomes = <<>>
    /\ steps = <<>>
    /\ payload_read = FALSE
    /\ classified = FALSE

\* args = shlex.split(line): a ValueError of the tokenizer leaves az at once.
Tokenize ==
    /\ pc = "tokenize"
    /\ LET r == shlex_split(line)
       IN  IF r.ok
           THEN /\ args' = r.tokens
                /\ pc' = "cli"
                /\ outcomes' = outcomes
           ELSE /\ args' = args
                /\ pc' = "done"
                /\ outcomes' = Append(outcomes, Raise(Exc("ValueError", 0, r.err)))
    /\ steps' = Append(steps, "tokenize")
    /\ UNCHANGED <<line, setup, sinks, invocations, dispatch, cli, payload_read, classified>>

\* az_cli = get_default_cli() returns a fresh CLI.
GetCli ==
    /\ pc = "cli"
    /\ setup' = "cli_ready"
    /\ cli' = NoResult
    /\ pc' = "open"
    /\ steps' = Append(steps, "cli")
    /\ UNCHANGED <<line, args, sinks, invocations, dispatch, outcomes, payload_read, classified>>

\* get_default_cli() raises: the statement is outside the try, the exception
\* leaves az.
GetCliFails ==
    /\ pc = "cli"
    /\ \E exc \in CliExceptions : outcomes' = Append(outcomes, Raise(exc))
    /\ setup' = "cli_failed"
    /\ pc' = "done"
    /\ steps' = Append(steps, "cli")
    /\ UNCHANGED <<line, args, sinks, invocations, dispatch, cli, payload_read, classified>>

\* out_file = open(os.devnull, "w") returns the sink (which az never closes).
OpenSink ==
    /\ pc = "open"
    /\ sinks' = sinks + 1
    /\ setup' = "ready"
    /\ pc' = "invoke"
    /\ steps' = Append(steps, "open")
    /\ UNCHANGED <<line, args, invocations, dispatch, cli, outcomes, payload_read, classified>>

\* open(os.devnull, "w") raises: outside the try as well.
OpenSinkFails ==
    /\ pc = "open"
    /\ \E exc \in OpenExceptions : outcomes' = Append(outcomes, Raise(exc))
    /\ setup' = "open_failed"
    /\ pc' = "done"
    /\ steps' = Append(steps, "open")
    /\ UNCHANGED <<line, args, sinks, invocations, dispatch, cli, payload_read, classified>>

\* az_cli.invoke(args, out_file=out_file) returns an exit code.
InvokeReturns ==
    /\ pc = "invoke"
    /\ \E code \in Codes :
         \E payload \in (IF code = 0 THEN Payloads ELSE FailedPayloads) :
            /\ dispatch' = [kind |-> "returned", exit_code |-> code, exc |-> NoExc]
            /\ cli' = [result |-> payload, error_code |-> code]
    /\ invocations' = invocations + 1
    /\ pc' = "returned"
    /\ steps' = Append(steps, "invoke")
    /\ UNCHANGED <<line, args, setup, sinks, outcomes, payload_read, classified>>

\* az_cli.invoke raises SystemExit: the signal carries its code, and the CLI
\* has recorded a code in az_cli.result.error.
InvokeExits ==
    /\ pc = "invoke"
    /\ \E code \in Codes, recorded \in Codes :
            /\ dispatch' = [kind |-> "raised", exit_code |-> 0,
                            exc |-> Exc("SystemExit", code, "")]
            /\ cli' = [result |-> NoneV, error_code |-> recorded]
    /\ invocations' = invocations + 1
    /\ pc' = "raised"
    /\ steps' = Append(steps, "invoke")
    /\ UNCHANGED <<line, args, setup, sinks, outcomes, payload_read, classified>>

\* az_cli.invoke raises anything else.
InvokeFails ==
    /\ pc = "invoke"
    /\ \E type \in OtherExceptions, recorded \in Codes :
            /\ dispatch' = [kind |-> "raised", exit_code |-> 0,
                            exc |-> Exc(type, 0, "")]
            /\ cli' = [result |-> NoneV, error_code |-> recorded]
    /\ invocations' = invocations + 1
    /\ pc' = "raised"
    /\ steps' = Append(steps, "invoke")
    /\ UNCHANGED <<line, args, setup, sinks, outcomes, payload_read, classified>>

\* Mutant of InspectResult: a non-zero exit status is retried.
InspectResultRetries ==
    /\ pc = "returned"
    /\ IF dispatch.exit_code # 0
       THEN /\ pc' = "invoke"
            /\ outcomes' = outcomes
            /\ payload_read' = payload_read
       ELSE /\ pc' = "done"
            /\ \E build \in PandasBuilds :
                  outcomes' = outcomes \o try_body(dispatch.exit_code, cli.result, build)
            /\ payload_read' = TRUE
    /\ steps' = Append(steps, "inspect")
    /\ UNCHANGED <<line, args, setup, sinks, invocations, dispatch, cli, classified>>

\* The rest of the try body, under whichever pandas is installed.
InspectResult ==
    /\ pc = "returned"
    /\ \E build \in PandasBuilds :
          outcomes' = outcomes \o try_body(dispatch.exit_code, cli.result, build)
    /\ payload_read' = (dispatch.exit_code = 0)
    /\ pc' = "done"
    /\ steps' = Append(steps, "inspect")
    /\ UNCHANGED <<line, args, setup, sinks, invocations, dispatch, cli, classified>>

\* except SystemExit as exc: the clause runs.
HandleSystemExit ==
    /\ pc = "raised"
    /\ catches(dispatch.exc)
    /\ outcomes' = outcomes \o except_clause(dispatch.exc, cli.error_code)
    /\ classified' = TRUE
    /\ pc' = "done"
    /\ steps' = Append(steps, "except")
    /\ UNCHANGED <<line, args, setup, sinks, invocations, dispatch, cli, payload_read>>

\* No clause matches: the exception leaves az.
Propagate ==
    /\ pc = "raised"
    /\ ~catches(dispatch.exc)
    /\ outcomes' = Append(outcomes, Raise(dispatch.exc))
    /\ pc' = "done"
    /\ steps' = Append(steps, "propagate")
    /\ UNCHANGED <<line, args, setup, sinks, invocations, dispatch, cli, payload_read, classified>>

Next ==
    \/ Tokenize
    \/ GetCli
    \/ GetCliFails
    \/ OpenSink
    \/ OpenSinkFails
    \/ InvokeReturns
    \/ InvokeExits
    \/ InvokeFails
    \/ InspectResult
    \/ HandleSystemExit
    \/ Propagate

Spec == Init /\ [][Next]_vars

(***************************************************************************)
(* Vocabulary of the properties.                                           *)
(***************************************************************************)
Done == pc = "done"
\* invoke returned exit status 0: the "successful invocation".
Succeeded == dispatch.kind = "returned" /\ dispatch.exit_code = 0
\* invoke raised the termination signal.
Terminated == dispatch.kind = "raised" /\ dispatch.exc.type = "SystemExit"
\* The payload is an OData envelope: both keys present.
IsEnvelope(x) == IsDict(x) /\ HasKey(x, "@odata.context") /\ HasKey(x, "value")
\* The column labels and the rows of a returned DataFrame.
ColumnSet(frame) == {frame.v.columns[c] : c \in 1..Len(frame.v.columns)}
\* The flattened keys of one element of a list payload.
FlatKeys(elem) == {RowItems(elem)[k][1] : k \in 1..Len(RowItems(elem))}
\* A sequence of uniform mappings: every element a mapping, all with the same
\* flattened keys.
UniformMappings(x) ==
    /\ IsList(x)
    /\ \A i \in 1..Len(x.v) : IsDict(x.v[i]) /\ FlatKeys(x.v[i]) = FlatKeys(x.v[1])

(***************************************************************************)
(* C1: when invoke raises SystemExit and the code recorded in              *)
(* az_cli.result.error is non-zero, az returns nothing: the call ends by   *)
(* raising that very signal, with the code it carried.                     *)
(***************************************************************************)
C1_GenuineTerminationPropagates ==
    (Done /\ Terminated /\ cli.error_code # 0)
        => /\ outcomes = <<Raise(dispatch.exc)>>
           /\ outcomes[1].exc.code = dispatch.exc.code

C1_Witness ==
    /\ Done /\ Terminated
    /\ cli.error_code = 1 /\ dispatch.exc.code = 1
    /\ outcomes = <<Raise(Exc("SystemExit", 1, ""))>>

(***************************************************************************)
(* C2: when invoke raises SystemExit and the recorded code is 0 (the help  *)
(* request), az returns None and raises nothing.                           *)
(***************************************************************************)
C2_BenignTerminationReturnsNone ==
    (Done /\ Terminated /\ cli.error_code = 0)
        => outcomes = <<Return(NoneV)>>

C2_Witness ==
    /\ Done /\ Terminated
    /\ cli.error_code = 0 /\ dispatch.exc.code = 0
    /\ outcomes = <<Return(NoneV)>>

(***************************************************************************)
(* C3: on status 0 with an envelope payload az returns the table that the  *)
(* list-of-records conversion gives for the value entry alone, and the     *)
(* envelope is absent from it: every column is a flattened key of a record *)
(* of value, none comes from the envelope's own keys.  (The code breaks    *)
(* this when value is not a list or a mapping: the conversion raises and   *)
(* az returns nothing.)                                                    *)
(***************************************************************************)
C3_EnvelopeValueConverted ==
    (Done /\ Succeeded /\ IsEnvelope(cli.result))
        => LET value == GetItem(cli.result, "value")
               elems == IF IsList(value) THEN value.v ELSE <<value>>
           IN  /\ Len(outcomes) = 1
               /\ outcomes[1].kind = "return"
               /\ outcomes[1].val.t = "DataFrame"
               /\ \E build \in PandasBuilds :
                     outcomes[1] = json_normalize(value, build)
               /\ \A column \in ColumnSet(outcomes[1].val) :
                     \E k \in 1..Len(elems) : column \in FlatKeys(elems[k])

(***************************************************************************)
(* C4: on status 0 with a mapping payload that lacks @odata.context, or    *)
(* lacks value, or lacks both, az returns that mapping unchanged.          *)
(***************************************************************************)
C4_PlainMappingUnchanged ==
    (Done /\ Succeeded /\ IsDict(cli.result) /\ ~IsEnvelope(cli.result))
        => outcomes = <<Return(cli.result)>>

C4_Witness ==
    /\ Done /\ Succeeded
    /\ cli.result = DictV(<< <<"value", ListV(<<Record(1)>>)>> >>)
    /\ outcomes = <<Return(cli.result)>>

(***************************************************************************)
(* C5: on status 0 with a list of uniform mappings az returns a table with *)
(* one row per mapping, in the order of the list, and one column per       *)
(* flattened key of the mappings.                                          *)
(***************************************************************************)
C5_UniformListTabulated ==
    (Done /\ Succeeded /\ UniformMappings(cli.result))
        => /\ Len(outcomes) = 1
           /\ outcomes[1].kind = "return"
           /\ outcomes[1].val.t = "DataFrame"
           /\ LET frame == outcomes[1].val.v
                  list == cli.result.v
              IN  /\ Len(frame.rows) = Len(list)
                  /\ \A i \in 1..Len(list) :
                        /\ ColumnSet(outcomes[1].val) = FlatKeys(list[i])
                        /\ Len(frame.columns) = Cardinality(FlatKeys(list[i]))
                        /\ Len(frame.rows[i]) = Len(frame.columns)
                        /\ \A c \in 1..Len(frame.columns) :
                              frame.rows[i][c] = CellOf(FlattenRecord(list[i]), frame.columns[c])
                        /\ \A c \in 1..Len(frame.columns) : frame.rows[i][c] # NaN

C5_Witness ==
    /\ Done /\ Succeeded
    /\ cli.result = ListV(<<Record(2), Record(1)>>)
    /\ outcomes = <<Return(DataFrame(<<"id", "p.q">>,
                                     << <<IntV(2), IntV(2)>>, <<IntV(1), IntV(1)>> >>))>>

(***************************************************************************)
(* C6: on status 0 with a payload that is neither a list nor a mapping     *)
(* (None included) az returns that object unchanged.                       *)
(***************************************************************************)
C6_OpaquePayloadUnchanged ==
    (Done /\ Succeeded /\ ~IsList(cli.result) /\ ~IsDict(cli.result))
        => outcomes = <<Return(cli.result)>>

C6_Witness ==
    /\ Done /\ Succeeded
    /\ cli.result = IntV(5)
    /\ outcomes = <<Return(IntV(5))>>

(***************************************************************************)
(* C8: an exception of invoke other than SystemExit is not caught: it      *)
(* leaves az unchanged, az returns nothing, and the recorded code is never *)
(* compared with 0.                                                        *)
(***************************************************************************)
C8_OtherExceptionsPropagate ==
    (Done /\ dispatch.kind = "raised" /\ dispatch.exc.type # "SystemExit")
        => /\ outcomes = <<Raise(dispatch.exc)>>
           /\ ~classified

C8_Witness ==
    /\ Done
    /\ dispatch.exc = Exc("RuntimeError", 0, "")
    /\ cli.error_code = 0
    /\ outcomes = <<Raise(Exc("RuntimeError", 0, ""))>>

(***************************************************************************)
(* C9: when invoke returns a non-zero status without raising, az reads no  *)
(* payload and returns None, which is just how a benign termination ends.  *)
(***************************************************************************)
C9_NonZeroStatusReturnsNone ==
    (Done /\ dispatch.kind = "returned" /\ dispatch.exit_code # 0)
        => /\ ~payload_read
           /\ outcomes = <<Return(NoneV)>>
           /\ outcomes = except_clause(Exc("SystemExit", 0, ""), 0)

C9_Witness ==
    /\ Done /\ dispatch.kind = "returned" /\ dispatch.exit_code = 1
    /\ cli.result = ListV(<<Record(1)>>)
    /\ outcomes = <<Return(NoneV)>>

(***************************************************************************)
(* The orders in which a complete call executes its statements.            *)
(***************************************************************************)
StepOrders ==
    { <<"tokenize", "cli", "open", "invoke", last>> :
         last \in {"inspect", "except", "propagate"} }

StepsInOrder ==
    \E order \in StepOrders :
       /\ Len(steps) <= Len(order)
       /\ \A i \in 1..Len(steps) : steps[i] = order[i]

(***************************************************************************)
(* C10 as written: the steps of a call are tokenize, open the sink,        *)
(* invoke, then inspect the outcome.  invoke is called at most once: once  *)
(* when the line tokenizes, never when it does not (the tokenizer's error  *)
(* leaves az before a sink is opened), and never again after it has ended. *)
(***************************************************************************)
C10_Original ==
    /\ StepsInOrder
    /\ invocations <= 1 /\ sinks <= 1
    /\ dispatch.kind # "pending" => (invocations = 1 /\ pc # "invoke")
    /\ Done =>
          IF shlex_split(line).ok
          THEN invocations = 1
          ELSE /\ invocations = 0 /\ sinks = 0 /\ steps = <<"tokenize">>
               /\ outcomes = <<Raise(Exc("ValueError", 0, shlex_split(line).err))>>

(***************************************************************************)
(* C10 amended: the steps of a call are tokenize, build the CLI, open the  *)
(* sink, invoke, then inspect the outcome.  invoke is called at most once: *)
(* once when the line tokenizes and get_default_cli() and open() both      *)
(* return; never when the line does not tokenize (the tokenizer's error    *)
(* leaves az before a sink is opened) or when get_default_cli() or open()  *)
(* raises (that exception leaves az); and never again after it has ended.  *)
(***************************************************************************)
C10_StepsOrderedInvokeOnce ==
    /\ StepsInOrder
    /\ invocations <= 1 /\ sinks <= 1
    /\ dispatch.kind # "pending" => (invocations = 1 /\ pc # "invoke")
    /\ Done =>
          IF ~shlex_split(line).ok
          THEN /\ invocations = 0 /\ sinks = 0 /\ steps = <<"tokenize">>
               /\ outcomes = <<Raise(Exc("ValueError", 0, shlex_split(line).err))>>
          ELSE IF setup = "cli_failed"
          THEN /\ invocations = 0 /\ sinks = 0 /\ steps = <<"tokenize", "cli">>
               /\ Len(outcomes) = 1 /\ outcomes[1] \in {Raise(exc) : exc \in CliExceptions}
          ELSE IF setup = "open_failed"
          THEN /\ invocations = 0 /\ sinks = 0 /\ steps = <<"tokenize", "cli", "open">>
               /\ Len(outcomes) = 1 /\ outcomes[1] \in {Raise(exc) : exc \in OpenExceptions}
          ELSE setup = "ready" /\ invocations = 1 /\ sinks = 1 /\ Len(steps) = 5

C10_Witness ==
    /\ Done
    /\ line = <<"a", "\t", "a">>
    /\ args = << <<"a">>, <<"a">> >>
    /\ setup = "ready" /\ invocations = 1 /\ sinks = 1
    /\ steps = <<"tokenize", "cli", "open", "invoke", "except">>

====
